---- MODULE Spec2Model ----
\* A model of sll.py: Sll, a singly linked list in which every node is itself
\* a list. The heap of Sll objects is three sequences indexed by node
\* identity; an attribute that an object does not have is NoAttr.
EXTENDS Integers, Sequences, FiniteSets, TLC

\* ---------------------------------------------------------------- bounds
MaxNodes == 4      \* Sll objects ever created
MaxItem == 2       \* item values are 1..MaxItem
MaxArgs == 2       \* items handed to one call of Sll(...), extend, prepend
MaxIdx == 3        \* indices handed to a positional operation are -1..MaxIdx
MaxMul == 3        \* multipliers handed to '*' are -1..MaxMul
MaxIterNodes == 3  \* Sll objects ever created when the cursor is exercised
MaxPasses == 3     \* second passes run inside the steps of a first pass

\* ---------------------------------------------------------------- values
None == 0          \* Python's None, as a link and as an item
NoAttr == -1       \* the object has no such attribute
AttrErr == -1      \* a walk ended in AttributeError
Hang == -2         \* a walk never ends (the links form a cycle)

ItemVals == 1..MaxItem
ArgLists == UNION {[1..k -> ItemVals] : k \in 0..MaxArgs}
Indices == -1..MaxIdx
Multipliers == -1..MaxMul

\* item[n], rest[n]: the attributes 'item' and 'rest' of object n (sll.py 194,
\* 198, 205; deleted at 105-106); index[n]: its cursor (sll.py 67);
\* last: the call the caller made last and its outcome.
VARIABLES item, rest, index, last
vars == <<item, rest, index, last>>

Nodes == 1..Len(item)

\* The caller's view of the call in progress: nothing pending, or the
\* operation just run with its arguments, how it ended and what it returned.
Idle == [op |-> "none", self |-> 0, i |-> 0, xs |-> <<>>, st |-> "ok", ret |-> 0]

\* ---------------------------------------------------------------- queries
is_empty(it, n) == it[n] = NoAttr

\* __len__: the count of nodes holding an item from n on, AttrErr when a node
\* with an item has no rest attribute, Hang when the walk never ends.
RECURSIVE LenFrom(_, _, _, _)
LenFrom(it, rs, n, fuel) ==
    IF n = None THEN 0
    ELSE IF it[n] = NoAttr \/ it[n] = None THEN 0
    ELSE IF rs[n] = NoAttr THEN AttrErr
    ELSE IF fuel = 0 THEN Hang
    ELSE LET r == LenFrom(it, rs, rs[n], fuel - 1)
         IN  IF r < 0 THEN r ELSE r + 1

SllLen(it, rs, n) == LenFrom(it, rs, n, Len(it))

\* items(): the items collected while the node is truthy (its len is > 0).
\* items() whose loop ends at the node without a successor ('while n.rest')
\* and so leaves the last item out.
RECURSIVE ItemsWalk_rest_test(_, _, _)
ItemsWalk_rest_test(it, rs, n) ==
    IF n = None THEN <<>>
    ELSE IF SllLen(it, rs, n) <= 0 THEN <<>>
    ELSE IF rs[n] = None THEN <<>>
    ELSE <<it[n]>> \o ItemsWalk_rest_test(it, rs, rs[n])

RECURSIVE ItemsWalk(_, _, _)
ItemsWalk(it, rs, n) ==
    IF n = None THEN <<>>
    ELSE IF SllLen(it, rs, n) <= 0 THEN <<>>
    ELSE IF it[n] = None THEN <<>>
    ELSE <<it[n]>> \o ItemsWalk(it, rs, rs[n])

\* How items() ends: "ok", "AttributeError" or "hang".
WalkSt(l) == IF l = Hang THEN "hang" ELSE IF l = AttrErr THEN "AttributeError" ELSE "ok"
ItemsSt(it, rs, n) == WalkSt(SllLen(it, rs, n))
items(it, rs, n) == IF SllLen(it, rs, n) < 0 THEN <<>> ELSE ItemsWalk(it, rs, n)

\* 'while i > 0: n = n.rest; i -= 1': the node k links after n, None when the
\* chain ends exactly there, AttrErr when a link is read off None or off an
\* object without a rest attribute.
RECURSIVE StepN(_, _, _)
StepN(rs, n, k) ==
    IF k <= 0 THEN n
    ELSE IF n = None THEN AttrErr
    ELSE IF rs[n] = NoAttr THEN AttrErr
    ELSE StepN(rs, rs[n], k - 1)

\* 'while n.rest != None: n = n.rest' (extend): the node whose rest is None.
RECURSIVE WalkToEnd(_, _, _)
WalkToEnd(rs, n, fuel) ==
    IF rs[n] = NoAttr THEN AttrErr
    ELSE IF rs[n] = None THEN n
    ELSE IF fuel = 0 THEN Hang
    ELSE WalkToEnd(rs, rs[n], fuel - 1)

\* The outcome of one operation: the heap after it, how it ended, its result.
Out(it, rs, ix, st, ret) == [it |-> it, rs |-> rs, ix |-> ix, st |-> st, ret |-> ret]

\* ---------------------------------------------------------------- extend
\* The nodes 'for item in items: n.rest = Sll(); n = n.rest; ...' creates
\* after node t: one per item, in order, the last with rest None.
LinkAfter(it, rs, ix, t, xs) ==
    LET base == Len(it)
        k == Len(xs)
    IN  IF k = 0 THEN Out(it, rs, ix, "ok", 0)
        ELSE Out(it \o xs,
                 [rs EXCEPT ![t] = base + 1]
                     \o [j \in 1..k |-> IF j < k THEN base + j + 1 ELSE None],
                 ix \o [j \in 1..k |-> 0],
                 "ok", 0)

extend(it, rs, ix, s, xs) ==
    IF xs = <<>> THEN Out(it, rs, ix, "ok", s)
    ELSE LET fill == is_empty(it, s)
             it1 == IF fill THEN [it EXCEPT ![s] = xs[1]] ELSE it
             rs1 == IF fill THEN [rs EXCEPT ![s] = None] ELSE rs
             xs1 == IF fill THEN Tail(xs) ELSE xs
             t == WalkToEnd(rs1, s, Len(it))
         IN  IF t = AttrErr THEN Out(it1, rs1, ix, "AttributeError", 0)
             ELSE IF t = Hang THEN Out(it1, rs1, ix, "hang", 0)
             ELSE LET o == LinkAfter(it1, rs1, ix, t, xs1)
                  IN  Out(o.it, o.rs, o.ix, "ok", s)

\* ---------------------------------------------------------------- prepend
\* 'for item in reversed(items): h = Sll(); h.item = item; h.rest = n; n = h':
\* the node of the last item is created first and wraps s; the node of the
\* first item is created last and is returned.
\* prepend that walks the items forward instead of reversed.
prepend_forward(it, rs, ix, s, xs) ==
    LET base == Len(it)
        k == Len(xs)
    IN  IF k = 0 THEN Out(it, rs, ix, "ok", s)
        ELSE Out(it \o xs,
                 rs \o [j \in 1..k |-> IF j = 1 THEN s ELSE base + j - 1],
                 ix \o [j \in 1..k |-> 0],
                 "ok", base + k)

prepend(it, rs, ix, s, xs) ==
    LET base == Len(it)
        k == Len(xs)
    IN  IF k = 0 THEN Out(it, rs, ix, "ok", s)
        ELSE Out(it \o [j \in 1..k |-> xs[k + 1 - j]],
                 rs \o [j \in 1..k |-> IF j = 1 THEN s ELSE base + j - 1],
                 ix \o [j \in 1..k |-> 0],
                 "ok", base + k)

\* ---------------------------------------------------------------- __delitem__
\* __delitem__ whose index-0 branch copies the successor's item into the head
\* and forgets to take over the successor's link.
delitem_no_relink(it, rs, ix, s, i) ==
    LET l == SllLen(it, rs, s)
        n == StepN(rs, s, i - 1)
        fail == Out(it, rs, ix, "IndexError", 0)
    IN  IF l = Hang THEN Out(it, rs, ix, "hang", 0)
        ELSE IF l = AttrErr THEN fail
        ELSE IF i > 1 /\ n = AttrErr THEN fail
        ELSE IF i = 0 THEN
            IF l = 0 THEN Out(it, rs, ix, "ok", s)
            ELSE IF l = 1 THEN
                Out([it EXCEPT ![s] = NoAttr], [rs EXCEPT ![s] = NoAttr], ix, "ok", s)
            ELSE Out([it EXCEPT ![s] = it[rs[s]]], rs, ix, "ok", s)
        ELSE IF i >= 1 THEN
            IF n = None THEN fail
            ELSE IF rs[n] = NoAttr THEN fail
            ELSE IF rs[n] = None THEN Out(it, [rs EXCEPT ![n] = None], ix, "ok", n)
            ELSE IF rs[rs[n]] = NoAttr THEN fail
            ELSE Out(it, [rs EXCEPT ![n] = rs[rs[n]]], ix, "ok", n)
        ELSE fail

\* Every exception inside the try block leaves as IndexError.
delitem(it, rs, ix, s, i) ==
    LET l == SllLen(it, rs, s)
        n == StepN(rs, s, i - 1)
        fail == Out(it, rs, ix, "IndexError", 0)
    IN  IF l = Hang THEN Out(it, rs, ix, "hang", 0)
        ELSE IF l = AttrErr THEN fail
        ELSE IF i > 1 /\ n = AttrErr THEN fail
        ELSE IF i = 0 THEN
            IF l = 0 THEN Out(it, rs, ix, "ok", s)
            ELSE IF l = 1 THEN
                Out([it EXCEPT ![s] = NoAttr], [rs EXCEPT ![s] = NoAttr], ix, "ok", s)
            ELSE Out([it EXCEPT ![s] = it[rs[s]]], [rs EXCEPT ![s] = rs[rs[s]]], ix, "ok", s)
        ELSE IF i >= 1 THEN
            IF n = None THEN fail
            ELSE IF rs[n] = NoAttr THEN fail
            ELSE IF rs[n] = None THEN Out(it, [rs EXCEPT ![n] = None], ix, "ok", n)
            ELSE IF rs[rs[n]] = NoAttr THEN fail
            ELSE Out(it, [rs EXCEPT ![n] = rs[rs[n]]], ix, "ok", n)
        ELSE fail

\* ---------------------------------------------------------------- __getitem__, sublist, __setitem__
getitem(it, rs, ix, s, i) ==
    LET n == StepN(rs, s, i)
    IN  IF i < 0 THEN Out(it, rs, ix, "IndexError", 0)
        ELSE IF n = AttrErr \/ n = None THEN Out(it, rs, ix, "AttributeError", 0)
        ELSE IF it[n] = NoAttr THEN Out(it, rs, ix, "AttributeError", 0)
        ELSE Out(it, rs, ix, "ok", it[n])

sublist(it, rs, ix, s, i) ==
    LET n == StepN(rs, s, i)
    IN  IF i < 0 THEN Out(it, rs, ix, "IndexError", 0)
        ELSE IF n = AttrErr THEN Out(it, rs, ix, "AttributeError", 0)
        ELSE Out(it, rs, ix, "ok", n)

\* __setitem__ that stores into self instead of the node the walk reached.
setitem_self(it, rs, ix, s, i, v) ==
    LET n == StepN(rs, s, i)
    IN  IF i < 0 THEN Out(it, rs, ix, "IndexError", 0)
        ELSE IF n = AttrErr \/ n = None THEN Out(it, rs, ix, "AttributeError", 0)
        ELSE Out([it EXCEPT ![s] = v], rs, ix, "ok", 0)

\* __setitem__ that stores into self before it looks at the index.
setitem_store_first(it, rs, ix, s, i, v) ==
    LET n == StepN(rs, s, i)
        it1 == [it EXCEPT ![s] = v]
    IN  IF i < 0 THEN Out(it1, rs, ix, "IndexError", 0)
        ELSE IF n = AttrErr \/ n = None THEN Out(it1, rs, ix, "AttributeError", 0)
        ELSE Out([it EXCEPT ![n] = v], rs, ix, "ok", 0)

setitem(it, rs, ix, s, i, v) ==
    LET n == StepN(rs, s, i)
    IN  IF i < 0 THEN Out(it, rs, ix, "IndexError", 0)
        ELSE IF n = AttrErr \/ n = None THEN Out(it, rs, ix, "AttributeError", 0)
        ELSE Out([it EXCEPT ![n] = v], rs, ix, "ok", 0)

\* ---------------------------------------------------------------- __iter__, __next__
iter(it, rs, ix, s) == Out(it, rs, [ix EXCEPT ![s] = 0], "ok", s)

\* 'self.index > len(self) - 1 or self.is_empty() or self.sublist(self.index) == None'
\* ends the pass; '== None' on an Sll is False, and the sublist at an index
\* below len is an Sll.
\* __next__ that ends the pass without 'self.index = 0'.
next_keep_cursor(it, rs, ix, s) ==
    LET l == SllLen(it, rs, s)
    IN  IF l < 0 THEN Out(it, rs, ix, WalkSt(l), 0)
        ELSE IF ix[s] > l - 1 \/ is_empty(it, s) \/ sublist(it, rs, ix, s, ix[s]).ret = None
             THEN Out(it, rs, ix, "StopIteration", 0)
        ELSE LET ix1 == [ix EXCEPT ![s] = ix[s] + 1]
                 g == getitem(it, rs, ix1, s, ix1[s] - 1)
             IN  Out(it, rs, ix1, g.st, g.ret)

next(it, rs, ix, s) ==
    LET l == SllLen(it, rs, s)
    IN  IF l < 0 THEN Out(it, rs, ix, WalkSt(l), 0)
        ELSE IF ix[s] > l - 1 \/ is_empty(it, s) \/ sublist(it, rs, ix, s, ix[s]).ret = None
             THEN Out(it, rs, [ix EXCEPT ![s] = 0], "StopIteration", 0)
        ELSE LET ix1 == [ix EXCEPT ![s] = ix[s] + 1]
                 g == getitem(it, rs, ix1, s, ix1[s] - 1)
             IN  Out(it, rs, ix1, g.st, g.ret)

\* ---------------------------------------------------------------- last_sublist, __add__
\* 'while n and not n.is_empty() and n.rest != None: n = n.rest', then
\* 'return n if not n.is_empty() else None'; AttrErr and Hang come from the
\* truth test of n, which is len(n) > 0.
RECURSIVE last_sublist(_, _, _)
last_sublist(it, rs, n) ==
    LET l == SllLen(it, rs, n)
    IN  IF l < 0 THEN l
        ELSE IF l > 0 /\ ~is_empty(it, n) /\ rs[n] # None THEN last_sublist(it, rs, rs[n])
        ELSE IF ~is_empty(it, n) THEN n
        ELSE None

\* 'n = self.last_sublist(); if not n.is_empty(): n.rest = sll; return self'
add(it, rs, ix, a, b) ==
    LET n == last_sublist(it, rs, a)
    IN  IF n = Hang THEN Out(it, rs, ix, "hang", 0)
        ELSE IF n = AttrErr \/ n = None THEN Out(it, rs, ix, "AttributeError", 0)
        ELSE IF ~is_empty(it, n) THEN Out(it, [rs EXCEPT ![n] = b], ix, "ok", a)
        ELSE Out(it, rs, ix, "ok", a)

\* ---------------------------------------------------------------- __mul__
\* 'for i in range(num - 1): n = n.prepend(*items)' on the heap h.
RECURSIVE PrependTimes(_, _, _)
PrependTimes(h, xs, k) ==
    IF k <= 0 THEN h
    ELSE PrependTimes(prepend(h.it, h.rs, h.ix, h.ret, xs), xs, k - 1)

\* __mul__ that prepends the items num times instead of num - 1 times.
mul_once_more(it, rs, ix, a, num) ==
    IF num < 0 THEN Out(it, rs, ix, "TypeError", 0)
    ELSE IF num = 0 THEN
        Out(Append(it, NoAttr), Append(rs, NoAttr), Append(ix, 0), "ok", Len(it) + 1)
    ELSE LET l == SllLen(it, rs, a)
         IN  IF l < 0 THEN Out(it, rs, ix, WalkSt(l), 0)
             ELSE PrependTimes(Out(it, rs, ix, "ok", a), items(it, rs, a), num)

mul(it, rs, ix, a, num) ==
    IF num < 0 THEN Out(it, rs, ix, "TypeError", 0)
    ELSE IF num = 0 THEN
        Out(Append(it, NoAttr), Append(rs, NoAttr), Append(ix, 0), "ok", Len(it) + 1)
    ELSE LET l == SllLen(it, rs, a)
         IN  IF l < 0 THEN Out(it, rs, ix, WalkSt(l), 0)
             ELSE PrependTimes(Out(it, rs, ix, "ok", a), items(it, rs, a), num - 1)

\* The objects a call of mul creates.
MulNodes(it, rs, a, num) ==
    IF num < 0 THEN 0
    ELSE IF num = 0 THEN 1
    ELSE IF SllLen(it, rs, a) < 0 THEN 0
    ELSE (num - 1) * SllLen(it, rs, a)

\* ---------------------------------------------------------------- reverse
\* 'while r and not r.is_empty(): t = r.rest; r.rest = n; n = r; r = t'
RECURSIVE RevLoop(_, _, _, _, _)
RevLoop(it, rs, ix, n, r) ==
    LET l == IF r = None THEN 0 ELSE SllLen(it, rs, r)
    IN  IF l < 0 THEN Out(it, rs, ix, WalkSt(l), 0)
        ELSE IF l > 0 /\ ~is_empty(it, r)
             THEN RevLoop(it, [rs EXCEPT ![r] = n], ix, r, rs[r])
        ELSE Out(it, rs, ix, "ok", n)

\* reverse without 'n.rest = None' on the old head.
reverse_keep_head_link(it, rs, ix, s) ==
    LET l == SllLen(it, rs, s)
    IN  IF l < 0 THEN Out(it, rs, ix, WalkSt(l), 0)
        ELSE IF l > 0 /\ ~is_empty(it, s)
             THEN RevLoop(it, rs, ix, s, rs[s])
        ELSE Out(it, rs, ix, "ok", s)

reverse(it, rs, ix, s) ==
    LET l == SllLen(it, rs, s)
    IN  IF l < 0 THEN Out(it, rs, ix, WalkSt(l), 0)
        ELSE IF l > 0 /\ ~is_empty(it, s)
             THEN RevLoop(it, [rs EXCEPT ![s] = None], ix, s, rs[s])
        ELSE Out(it, rs, ix, "ok", s)

\* ---------------------------------------------------------------- count
\* count is inherited: 'sum(1 for v in self if v is value or v == value)',
\* a pass over self with __iter__ and __next__.
RECURSIVE CountLoop(_, _, _, _, _, _)
CountLoop(it, rs, ix, s, x, acc) ==
    LET o == next(it, rs, ix, s)
    IN  IF o.st = "ok"
        THEN CountLoop(it, rs, o.ix, s, x, IF o.ret = x THEN acc + 1 ELSE acc)
        ELSE IF o.st = "StopIteration" THEN Out(it, rs, o.ix, "ok", acc)
        ELSE Out(it, rs, o.ix, o.st, 0)

count(it, rs, ix, s, x) == CountLoop(it, rs, iter(it, rs, ix, s).ix, s, x, 0)

\* ---------------------------------------------------------------- find
\* 'while n and not n.is_empty(): if n.item == item: return n; else: n = n.rest'
\* falls off the loop, and so returns None, when nothing matches; the truth
\* test of n is len(n) > 0.
RECURSIVE FindFrom(_, _, _, _)
FindFrom(it, rs, n, x) ==
    LET l == IF n = None THEN 0 ELSE SllLen(it, rs, n)
    IN  IF l < 0 THEN l
        ELSE IF l > 0 /\ ~is_empty(it, n)
             THEN IF it[n] = x THEN n ELSE FindFrom(it, rs, rs[n], x)
        ELSE None

\* find that starts comparing at the successor of self.
find_skip_head(it, rs, ix, s, x) ==
    LET l == SllLen(it, rs, s)
        r == IF l > 0 THEN FindFrom(it, rs, rs[s], x) ELSE None
    IN  IF l < 0 THEN Out(it, rs, ix, WalkSt(l), 0)
        ELSE Out(it, rs, ix, "ok", r)

find(it, rs, ix, s, x) ==
    LET r == FindFrom(it, rs, s, x)
    IN  IF r < 0 THEN Out(it, rs, ix, WalkSt(r), 0)
        ELSE Out(it, rs, ix, "ok", r)

\* ---------------------------------------------------------------- last
\* 'while n and not n.is_empty() and n.item != None and n.rest != None:
\* n = n.rest': the node the walk of last() stops at.
RECURSIVE LastWalk(_, _, _)
LastWalk(it, rs, n) ==
    LET l == SllLen(it, rs, n)
    IN  IF l < 0 THEN l
        ELSE IF l > 0 /\ ~is_empty(it, n) /\ it[n] # None /\ rs[n] # None
             THEN LastWalk(it, rs, rs[n])
        ELSE n

\* Sll.last: 'return n.item if n and n.item != None else None'.
last_item(it, rs, ix, s) ==
    LET n == LastWalk(it, rs, s)
    IN  IF n < 0 THEN Out(it, rs, ix, WalkSt(n), 0)
        ELSE IF SllLen(it, rs, n) > 0 /\ it[n] # None THEN Out(it, rs, ix, "ok", it[n])
        ELSE Out(it, rs, ix, "ok", None)

\* ---------------------------------------------------------------- state
Init ==
    /\ item = <<>>
    /\ rest = <<>>
    /\ index = <<>>
    /\ last = Idle

Do(name, s, i, xs, o) ==
    /\ item' = o.it
    /\ rest' = o.rs
    /\ index' = o.ix
    /\ last' = [op |-> name, self |-> s, i |-> i, xs |-> xs, st |-> o.st, ret |-> o.ret]

\* Sll(*items): a new object with index 0 and no item, then extend.
Construct ==
    \E xs \in ArgLists :
        /\ last.op = "none"
        /\ Len(item) + 1 + (IF Len(xs) > 0 THEN Len(xs) - 1 ELSE 0) <= MaxNodes
        /\ LET n == Len(item) + 1
               o == extend(Append(item, NoAttr), Append(rest, NoAttr), Append(index, 0), n, xs)
           IN  Do("construct", n, 0, xs, o)

Extend ==
    \E s \in Nodes, xs \in ArgLists :
        /\ last.op = "none"
        /\ Len(item) + Len(xs) <= MaxNodes
        /\ Do("extend", s, 0, xs, extend(item, rest, index, s, xs))

Prepend ==
    \E s \in Nodes, xs \in ArgLists :
        /\ last.op = "none"
        /\ Len(item) + Len(xs) <= MaxNodes
        /\ Do("prepend", s, 0, xs, prepend(item, rest, index, s, xs))

DelItem ==
    \E s \in Nodes, i \in Indices :
        /\ last.op = "none"
        /\ Do("delitem", s, i, <<>>, delitem(item, rest, index, s, i))

GetItem ==
    \E s \in Nodes, i \in Indices :
        /\ last.op = "none"
        /\ Do("getitem", s, i, <<>>, getitem(item, rest, index, s, i))

Sublist ==
    \E s \in Nodes, i \in Indices :
        /\ last.op = "none"
        /\ Do("sublist", s, i, <<>>, sublist(item, rest, index, s, i))

SetItem ==
    \E s \in Nodes, i \in Indices, v \in ItemVals :
        /\ last.op = "none"
        /\ Do("setitem", s, i, <<v>>, setitem(item, rest, index, s, i, v))

Iter ==
    \E s \in Nodes :
        /\ last.op = "none"
        /\ Do("iter", s, 0, <<>>, iter(item, rest, index, s))

NextItem ==
    \E s \in Nodes :
        /\ last.op = "none"
        /\ Do("next", s, 0, <<>>, next(item, rest, index, s))

Add ==
    \E a \in Nodes, b \in Nodes :
        /\ last.op = "none"
        /\ Do("add", a, b, <<>>, add(item, rest, index, a, b))

Mul ==
    \E a \in Nodes, num \in Multipliers :
        /\ last.op = "none"
        /\ Len(item) + MulNodes(item, rest, a, num) <= MaxNodes
        /\ Do("mul", a, num, <<>>, mul(item, rest, index, a, num))

Reverse ==
    \E s \in Nodes :
        /\ last.op = "none"
        /\ Do("reverse", s, 0, <<>>, reverse(item, rest, index, s))

Find ==
    \E s \in Nodes, x \in ItemVals :
        /\ last.op = "none"
        /\ Do("find", s, 0, <<x>>, find(item, rest, index, s, x))

Last ==
    \E s \in Nodes :
        /\ last.op = "none"
        /\ Do("last", s, 0, <<>>, last_item(item, rest, index, s))

LastSublist ==
    \E s \in Nodes :
        /\ last.op = "none"
        /\ LET n == last_sublist(item, rest, s)
           IN  Do("last_sublist", s, 0, <<>>,
                  Out(item, rest, index, WalkSt(n), IF n < 0 THEN 0 ELSE n))

\* The caller takes the result of the call and goes on; a call that hangs
\* never gives control back.
Return ==
    /\ last.op # "none"
    /\ last.st # "hang"
    /\ last' = Idle
    /\ UNCHANGED <<item, rest, index>>

\* The list operations.
Next ==
    \/ Construct
    \/ Extend
    \/ Prepend
    \/ DelItem
    \/ GetItem
    \/ Sublist
    \/ SetItem
    \/ Add
    \/ Mul
    \/ Reverse
    \/ Find
    \/ Last
    \/ LastSublist
    \/ Return

Spec == Init /\ [][Next]_vars

\* The operations that build and relink chains and the iteration protocol,
\* on at most MaxIterNodes objects.
Small == Len(item) <= MaxIterNodes

NextIter ==
    \/ Construct /\ Small'
    \/ Extend /\ Small'
    \/ Prepend /\ Small'
    \/ DelItem
    \/ Add
    \/ Mul /\ Small'
    \/ Reverse
    \/ Iter
    \/ NextItem
    \/ Return

SpecIter == Init /\ [][NextIter]_vars
\* ---------------------------------------------------------------- properties
\* A step in which the caller runs the operation called name.
Called(name) == last.op = "none" /\ last'.op = name

\* The heap of the objects that existed before the step is untouched.
HeapKept ==
    \A n \in Nodes : item'[n] = item[n] /\ rest'[n] = rest[n] /\ index'[n] = index[n]

\* xs without its element at position p (1-based).
RemoveAt(xs, p) == SubSeq(xs, 1, p - 1) \o SubSeq(xs, p + 1, Len(xs))

\* The objects holding the items of n's chain, in order.
RECURSIVE ChainFrom(_, _, _)
ChainFrom(rs, n, k) == IF k = 0 THEN <<>> ELSE <<n>> \o ChainFrom(rs, rs[n], k - 1)
NodesOf(it, rs, n) ==
    IF SllLen(it, rs, n) < 0 THEN <<>> ELSE ChainFrom(rs, n, SllLen(it, rs, n))

\* C1: extend (append is extend with one item) on any sequence succeeds,
\* returns the head it was called on and leaves that head's items as the old
\* items followed by the new ones; with no items it changes nothing.
C1_ExtendAppends ==
    [][Called("extend") /\ ItemsSt(item, rest, last'.self) = "ok" =>
        LET s == last'.self
        IN  /\ last'.st = "ok"
            /\ last'.ret = s
            /\ ItemsSt(item', rest', s) = "ok"
            /\ items(item', rest', s) = items(item, rest, s) \o last'.xs
            /\ last'.xs = <<>> => UNCHANGED <<item, rest, index>>]_vars

C3_RemoveInRange ==
    [][(Called("delitem") /\ 0 <= last'.i /\ last'.i < SllLen(item, rest, last'.self)) =>
        LET s == last'.self
        IN  /\ last'.st = "ok"
            /\ ItemsSt(item', rest', s) = "ok"
            /\ items(item', rest', s) = RemoveAt(items(item, rest, s), last'.i + 1)
            /\ SllLen(item, rest, s) = 1 => is_empty(item', s)]_vars

\* C3 happens: the item at index 2 of a four-item sequence was removed (a
\* removal at index 2 that leaves three items behind is within the length).
C3_Witness ==
    /\ last.op = "delitem"
    /\ last.st = "ok"
    /\ last.i = 2
    /\ SllLen(item, rest, last.self) = 3

\* C4: removal at a negative index or at an index not below the length fails
\* with IndexError.
C4_RemoveOutOfRange ==
    [][(/\ Called("delitem")
        /\ SllLen(item, rest, last'.self) >= 0
        /\ (last'.i < 0 \/ last'.i >= SllLen(item, rest, last'.self))) =>
        last'.st = "IndexError"]_vars

\* A step in which the caller runs indexed get, sublist or indexed set.
CalledPositional ==
    last.op = "none" /\ last'.op \in {"getitem", "sublist", "setitem"}

\* C5: indexed get, indexed set and sublist at a negative index or at an
\* index not below the length fail with IndexError, return nothing and store
\* nothing.
C5_BadIndexIsIndexError ==
    [][(/\ CalledPositional
        /\ SllLen(item, rest, last'.self) >= 0
        /\ (last'.i < 0 \/ last'.i >= SllLen(item, rest, last'.self))) =>
        /\ last'.st = "IndexError"
        /\ UNCHANGED <<item, rest, index>>]_vars

\* C6: at an index within the length, indexed get returns the item at that
\* position; sublist returns the object of the chain at that position, whose
\* items are the items from there on; indexed set stores the value in that
\* object and changes nothing else: no object is created, no link changes, and
\* every head whose chain passes through the object reads the new value there.
C6_InRangeAccess ==
    [][(/\ CalledPositional
        /\ 0 <= last'.i
        /\ last'.i < SllLen(item, rest, last'.self)) =>
        LET s == last'.self
            p == last'.i + 1
            xs == items(item, rest, s)
            n == NodesOf(item, rest, s)[p]
        IN  /\ last'.st = "ok"
            /\ last'.op = "getitem" =>
                  /\ last'.ret = xs[p]
                  /\ UNCHANGED <<item, rest, index>>
            /\ last'.op = "sublist" =>
                  /\ last'.ret = n
                  /\ last'.ret \in Nodes
                  /\ items(item', rest', last'.ret) = SubSeq(xs, p, Len(xs))
                  /\ UNCHANGED <<item, rest, index>>
            /\ last'.op = "setitem" =>
                  /\ item' = [item EXCEPT ![n] = last'.xs[1]]
                  /\ UNCHANGED <<rest, index>>
                  /\ items(item', rest', s) = [xs EXCEPT ![p] = last'.xs[1]]
                  /\ \A m \in Nodes :
                        SllLen(item, rest, m) >= 0 =>
                            /\ SllLen(item', rest', m) = SllLen(item, rest, m)
                            /\ \A k \in 1..SllLen(item, rest, m) :
                                  items(item', rest', m)[k] =
                                      IF NodesOf(item, rest, m)[k] = n
                                      THEN last'.xs[1]
                                      ELSE items(item, rest, m)[k]]_vars

\* C6 happens: a value was stored at index 1 or beyond of a sequence, in an
\* object that a second head outside that sequence reaches too.
C6_Witness ==
    /\ last.op = "setitem"
    /\ last.st = "ok"
    /\ last.i >= 1
    /\ last.i < SllLen(item, rest, last.self)
    /\ \E m \in Nodes :
          /\ SllLen(item, rest, m) > 0
          /\ \A k \in 1..SllLen(item, rest, last.self) : NodesOf(item, rest, last.self)[k] # m
          /\ \E k \in 1..SllLen(item, rest, m) :
                NodesOf(item, rest, m)[k] = NodesOf(item, rest, last.self)[last.i + 1]

\* The object holding the last item of n's chain (n has at least one item).
LastNode(it, rs, n) == NodesOf(it, rs, n)[SllLen(it, rs, n)]

\* b is the object k links after a, past k objects of a's chain that hold items.
JoinedAt(a, k, b) ==
    /\ SllLen(item, rest, a) >= k
    /\ StepN(rest, a, k) = b

\* C7: a + b with a non-empty makes b's head itself the successor of a's last
\* object, and from then on every mutation of b through its own reference
\* (extend, indexed set, removal) leaves items(a) equal to a's items before
\* the join followed by the current items of b.
C7_JoinAliasing ==
    [][/\ (/\ Called("add")
           /\ SllLen(item, rest, last'.self) > 0
           /\ ItemsSt(item, rest, last'.i) = "ok") =>
            LET a == last'.self
                b == last'.i
            IN  /\ last'.st = "ok"
                /\ rest'[LastNode(item, rest, a)] = b
                /\ ItemsSt(item', rest', a) = "ok"
                /\ items(item', rest', a) = items(item, rest, a) \o items(item', rest', b)
       /\ (last.op = "none" /\ last'.op \in {"extend", "setitem", "delitem"}) =>
            LET b == last'.self
            IN  \A a \in Nodes : \A k \in 1..Len(item) :
                    (SllLen(item, rest, a) >= 0 /\ JoinedAt(a, k, b)) =>
                        /\ ItemsSt(item', rest', a) = "ok"
                        /\ items(item', rest', a) =
                               SubSeq(items(item, rest, a), 1, k) \o items(item', rest', b)]_vars

\* C8: a + b completes without error for every pair of sequences, an empty a
\* included, returns a, and leaves items(a) equal to the old items of a
\* followed by the items of b.
C8_ConcatAnyPair ==
    [][(/\ Called("add")
        /\ ItemsSt(item, rest, last'.self) = "ok"
        /\ ItemsSt(item, rest, last'.i) = "ok") =>
        LET a == last'.self
            b == last'.i
        IN  /\ last'.st = "ok"
            /\ last'.ret = a
            /\ ItemsSt(item', rest', a) = "ok"
            /\ items(item', rest', a) = items(item, rest, a) \o items(item, rest, b)]_vars

\* xs repeated k times.
RECURSIVE Repeat(_, _)
Repeat(xs, k) == IF k <= 0 THEN <<>> ELSE xs \o Repeat(xs, k - 1)

\* C9: a * n for n >= 0 returns a head whose items are the items of a
\* repeated n times: a new object without an item for n = 0, a itself for
\* n = 1; a reads the same items as before, no existing object changes, and
\* every value is counted n times as often in the result as in a.
C9_Repetition ==
    [][(/\ Called("mul")
        /\ last'.i >= 0
        /\ ItemsSt(item, rest, last'.self) = "ok") =>
        LET a == last'.self
            num == last'.i
            r == last'.ret
        IN  /\ last'.st = "ok"
            /\ r \in 1..Len(item')
            /\ ItemsSt(item', rest', r) = "ok"
            /\ items(item', rest', r) = Repeat(items(item, rest, a), num)
            /\ num = 0 => r \notin Nodes /\ is_empty(item', r)
            /\ num = 1 => r = a
            /\ items(item', rest', a) = items(item, rest, a)
            /\ HeapKept
            /\ \A x \in ItemVals :
                  /\ count(item', rest', index', r, x).st = "ok"
                  /\ count(item', rest', index', r, x).ret =
                         num * count(item, rest, index, a, x).ret]_vars

\* C9 happens: a sequence of two distinct items was doubled.
C9_Witness ==
    /\ last.op = "mul"
    /\ last.st = "ok"
    /\ last.i = 2
    /\ Len(items(item, rest, last.self)) = 2
    /\ items(item, rest, last.self)[1] # items(item, rest, last.self)[2]
    /\ Len(items(item, rest, last.ret)) = 4

\* xs back to front.
RECURSIVE Rev(_)
Rev(xs) == IF xs = <<>> THEN <<>> ELSE Rev(Tail(xs)) \o <<Head(xs)>>

\* C10: reverse returns a head whose items are the old items of s back to
\* front and creates no object; the head returned is the object that held the
\* last item, and on an empty or one-item sequence reverse changes nothing and
\* returns s.
C10_Reverse ==
    [][(Called("reverse") /\ ItemsSt(item, rest, last'.self) = "ok") =>
        LET s == last'.self
            l == SllLen(item, rest, s)
        IN  /\ last'.st = "ok"
            /\ Len(item') = Len(item)
            /\ ItemsSt(item', rest', last'.ret) = "ok"
            /\ items(item', rest', last'.ret) = Rev(items(item, rest, s))
            /\ l >= 1 => last'.ret = LastNode(item, rest, s)
            /\ l <= 1 => last'.ret = s /\ UNCHANGED <<item, rest, index>>]_vars

\* C11: on a head s on which items() returns, find(x) ends without error and
\* changes nothing; when x occurs in items(s) it returns the object of s's own
\* chain at the smallest position holding x, whose items are the items of s
\* from that position on; when x does not occur (s empty included) it returns
\* None, never an object.
C11_Find ==
    [][(Called("find") /\ ItemsSt(item, rest, last'.self) = "ok") =>
        LET s == last'.self
            x == last'.xs[1]
            xs == items(item, rest, s)
            hits == {k \in 1..Len(xs) : xs[k] = x}
        IN  /\ last'.st = "ok"
            /\ item' = item /\ rest' = rest /\ index' = index
            /\ IF hits = {}
               THEN last'.ret = None
               ELSE LET k == CHOOSE k \in hits : \A j \in hits : k <= j
                    IN  /\ last'.ret = NodesOf(item, rest, s)[k]
                        /\ items(item', rest', last'.ret) = SubSeq(xs, k, Len(xs))]_vars

\* find has returned the second object of a chain of three items whose second
\* and third items are both the one looked for.
C11_Witness ==
    /\ last.op = "find" /\ last.st = "ok"
    /\ Len(items(item, rest, last.self)) = 3
    /\ items(item, rest, last.self)[1] # last.xs[1]
    /\ items(item, rest, last.self)[2] = last.xs[1]
    /\ items(item, rest, last.self)[3] = last.xs[1]
    /\ last.ret = rest[last.self]

\* The items a caller gets from successive advances on s, up to the advance
\* that does not return one, and the cursors after that advance.
RECURSIVE Advances(_, _, _, _, _)
Advances(it, rs, ix, s, fuel) ==
    LET o == next(it, rs, ix, s)
    IN  IF o.st = "ok" /\ fuel > 0
        THEN <<o.ret>> \o Advances(it, rs, o.ix, s, fuel - 1)
        ELSE <<>>

RECURSIVE AfterAdvances(_, _, _, _, _)
AfterAdvances(it, rs, ix, s, fuel) ==
    LET o == next(it, rs, ix, s)
    IN  IF o.st = "ok" /\ fuel > 0
        THEN AfterAdvances(it, rs, o.ix, s, fuel - 1)
        ELSE o

\* C12: iter(s) sets the cursor of s to 0 and changes nothing else; an advance
\* on s with the cursor below len(s) returns the item at the cursor and moves
\* the cursor by one, an advance with the cursor at len(s) or beyond signals
\* StopIteration and leaves the cursor at 0 (at once when s is empty); so the
\* advances that follow iter(s) return items(s) in order, and the advance
\* after them signals StopIteration with the cursor back at 0.
C12_SinglePass ==
    [][LET s == last'.self
           l == SllLen(item, rest, s)
           xs == items(item, rest, s)
           others == \A n \in Nodes : n # s => index'[n] = index[n]
       IN  /\ Called("iter") =>
                /\ last'.st = "ok" /\ last'.ret = s
                /\ item' = item /\ rest' = rest /\ others
                /\ index'[s] = 0
                /\ l >= 0 =>
                     /\ Advances(item', rest', index', s, l + 1) = xs
                     /\ AfterAdvances(item', rest', index', s, l + 1).st = "StopIteration"
                     /\ AfterAdvances(item', rest', index', s, l + 1).ix[s] = 0
           /\ (Called("next") /\ l >= 0) =>
                /\ item' = item /\ rest' = rest /\ others
                /\ IF index[s] < l
                   THEN /\ last'.st = "ok"
                        /\ last'.ret = xs[index[s] + 1]
                        /\ index'[s] = index[s] + 1
                   ELSE /\ last'.st = "StopIteration"
                        /\ index'[s] = 0]_vars

\* The third advance of a pass over three items has returned the third item.
C12_Witness ==
    /\ last.op = "next" /\ last.st = "ok"
    /\ Len(items(item, rest, last.self)) = 3
    /\ index[last.self] = 3
    /\ last.ret = items(item, rest, last.self)[3]
    /\ items(item, rest, last.self)[3] # items(item, rest, last.self)[2]

\* C13: on a head s on which items() returns, last() and last_sublist() end
\* without error; both return None when s is empty; otherwise last() returns
\* the last item of s and last_sublist() returns the object holding it, whose
\* items are exactly that one item.
C13_LastOfChain ==
    [][((Called("last") \/ Called("last_sublist")) /\ ItemsSt(item, rest, last'.self) = "ok") =>
        LET s == last'.self
            xs == items(item, rest, s)
        IN  /\ last'.st = "ok"
            /\ IF xs = <<>>
               THEN last'.ret = None
               ELSE IF last'.op = "last"
               THEN last'.ret = xs[Len(xs)]
               ELSE /\ last'.ret = LastNode(item, rest, s)
                    /\ items(item', rest', last'.ret) = <<xs[Len(xs)]>>]_vars

C15_RemoveReturnsHead ==
    [][(/\ Called("delitem")
        /\ SllLen(item, rest, last'.self) >= 0
        /\ 0 <= last'.i /\ last'.i < SllLen(item, rest, last'.self)) =>
        /\ last'.st = "ok"
        /\ last'.ret = last'.self]_vars

C17_ChainShape ==
    \A n \in Nodes :
        IF item[n] = NoAttr
        THEN rest[n] = NoAttr
        ELSE /\ rest[n] # NoAttr
             /\ rest[n] # None => item[rest[n]] # NoAttr
             /\ SllLen(item, rest, n) >= 0

\* C18: in every reachable state the links that start at any object never
\* form a cycle, so that no walk over them and no operation fails to end.
C18_NoCycle ==
    /\ last.st # "hang"
    /\ \A n \in Nodes : SllLen(item, rest, n) # Hang

\* A complete pass over s: iter(s), then advances up to the one that does not
\* return an item.
SecondPass(it, rs, ix, s) ==
    AfterAdvances(it, rs, iter(it, rs, ix, s).ix, s, Len(it) + 1)

\* The k-th further advance of a first pass over s that runs a complete
\* second pass over s before each of its advances; the first pass is over
\* once an advance has not returned an item.
RECURSIVE OuterAdvance(_, _, _, _, _)
OuterAdvance(it, rs, ix, s, k) ==
    LET prev == IF k = 1 THEN Out(it, rs, ix, "ok", 0)
                ELSE OuterAdvance(it, rs, ix, s, k - 1)
    IN  IF prev.st # "ok" THEN prev
        ELSE next(it, rs, SecondPass(it, rs, prev.ix, s).ix, s)

\* C19: after any advance of a pass over s that returned an item, a second
\* pass over the same s run to exhaustion leaves the shared cursor at 0, so
\* that the next advance of the first pass returns the item at position 0 and
\* moves the cursor to 1, wherever the first pass stood; a first pass that
\* runs a complete second pass before each of its advances gets the item at
\* position 0 every time and never StopIteration.
C19_SharedCursor ==
    [][(Called("next") /\ last'.st = "ok") =>
        LET s == last'.self
            xs == items(item', rest', s)
            second == SecondPass(item', rest', index', s)
        IN  /\ second.st = "StopIteration"
            /\ second.ix[s] = 0
            /\ \A k \in 1..MaxPasses :
                 LET again == OuterAdvance(item', rest', index', s, k)
                 IN  /\ again.st = "ok"
                     /\ again.ret = xs[1]
                     /\ again.ix[s] = 1]_vars

\* The second advance of a pass over three items has returned the second
\* item; the pass's own next item, the third, is not the item at position 0.
C19_Witness ==
    /\ last.op = "next" /\ last.st = "ok"
    /\ Len(items(item, rest, last.self)) = 3
    /\ index[last.self] = 2
    /\ items(item, rest, last.self)[3] # items(item, rest, last.self)[1]

\* C20: reverse() on a head s of two or more items returns an object other
\* than s; s itself is then the last object of the returned chain, with an
\* absent link, so that items(s) is the old first item alone and len(s) = 1.
C20_ReverseMovesHead ==
    [][(Called("reverse") /\ SllLen(item, rest, last'.self) >= 2) =>
        LET s == last'.self
            xs == items(item, rest, s)
        IN  /\ last'.st = "ok"
            /\ last'.ret # s
            /\ rest'[s] = None
            /\ SllLen(item', rest', s) = 1
            /\ items(item', rest', s) = <<xs[1]>>
            /\ SllLen(item', rest', last'.ret) = Len(xs)
            /\ LastNode(item', rest', last'.ret) = s]_vars

\* reverse has returned the head of three items whose last object is the
\* head it was called on, which now reads one item.
C20_Witness ==
    /\ last.op = "reverse" /\ last.st = "ok"
    /\ last.ret # last.self
    /\ Len(items(item, rest, last.ret)) = 3
    /\ items(item, rest, last.ret)[1] # items(item, rest, last.ret)[3]
    /\ LastNode(item, rest, last.ret) = last.self
    /\ items(item, rest, last.self) = <<items(item, rest, last.ret)[3]>>
====
